---- MODULE Spec2Model ----
(***************************************************************************)
(* Option scanner backend: the scan handler (GET /api/scan), the value     *)
(* extraction helper getLatestIndicatorValue and the Alpha Vantage client  *)
(* fetchDailyTimeSeries.                                                   *)
(*                                                                         *)
(* Representation.  A JavaScript string is a sequence of one-character     *)
(* strings (object keys are sequences of longer tokens where only prefix   *)
(* tests are made on them).  A JSON object is a sequence of entries        *)
(* [k |-> key, v |-> value] in insertion order.  A JSON value is a record  *)
(* [t |-> "obj" | "str" | "null" | "undef", e |-> entries or characters].   *)
(* A number is [t |-> "num", n |-> integer]; NaN and null are              *)
(* [t |-> "nan", n |-> 0] and [t |-> "null", n |-> 0].  Indicator values   *)
(* are whole numbers: the decimal point is outside the modelled alphabet.  *)
(* A message is a sequence of string tokens.                               *)
(***************************************************************************)
EXTENDS Integers, Sequences, FiniteSets, TLC

VARIABLES
    query,       \* req.query of the scan request: [symbols, setupType]
    pc,          \* position of the scan handler
    symbolList,  \* const symbolList
    fetch,       \* fetch[i][k]: the promise of task i's k-th indicator fetch
    inner,       \* inner[i]: the promise of task i's Promise.all of five
    task,        \* task[i]: position of the i-th per-symbol async callback
    results,     \* const results = []
    errors,      \* const errors = []
    res,         \* the responses sent on res, in order
    ext,         \* one call of getLatestIndicatorValue: its arguments and result
    client       \* one call of fetchDailyTimeSeries: environment, position, result, log

vars == <<query, pc, symbolList, fetch, inner, task, results, errors, res, ext, client>>

scanVars == <<query, pc, symbolList, fetch, inner, task, results, errors, res>>

----------------------------------------------------------------------------
(* JavaScript values *)

Null == [t |-> "null", n |-> 0]

NaN == [t |-> "nan", n |-> 0]

Num(x) == [t |-> "num", n |-> x]

\* the outcome of a call that threw (the model's only throw is Object.keys(null)'s TypeError)
Threw == [t |-> "throw", n |-> 0]

JNull == [t |-> "null", e |-> <<>>]

JUndef == [t |-> "undef", e |-> <<>>]

JStr(s) == [t |-> "str", e |-> s]

JObj(entries) == [t |-> "obj", e |-> entries]

\* !v for the JSON values of the model: null, undefined and "" are falsy, objects are truthy
Falsy(v) == v.t \in {"null", "undef"} \/ (v.t = "str" /\ v.e = <<>>)

\* Object.keys(o)
ObjectKeys(o) == [j \in 1..Len(o.e) |-> o.e[j].k]

\* o[key]: the value stored under key, undefined when there is none
Lookup(o, key) ==
    IF \E j \in 1..Len(o.e) : o.e[j].k = key
    THEN o.e[CHOOSE j \in 1..Len(o.e) : o.e[j].k = key].v
    ELSE JUndef

\* key.startsWith(prefix)
StartsWith(key, prefix) ==
    Len(prefix) <= Len(key) /\ SubSeq(key, 1, Len(prefix)) = prefix

\* Array.prototype.find: the first element satisfying the test, <<>> standing for undefined
FindPrefixed(keys, prefix) ==
    IF \E j \in 1..Len(keys) : StartsWith(keys[j], prefix)
    THEN keys[CHOOSE j \in 1..Len(keys) :
                /\ StartsWith(keys[j], prefix)
                /\ \A h \in 1..(j - 1) : ~StartsWith(keys[h], prefix)]
    ELSE <<>>

----------------------------------------------------------------------------
(* Strings: UTF-16 code unit order, parseFloat, trim, toUpperCase *)

Digits == <<"0", "1", "2", "3", "4", "5", "6", "7", "8", "9">>

IsDigit(c) == \E d \in 1..10 : Digits[d] = c

DigitVal(c) == (CHOOSE d \in 1..10 : Digits[d] = c) - 1

\* the code unit of a character of the modelled alphabet
CharCode(c) ==
    CASE c = " " -> 32
      [] c = "," -> 44
      [] c = "-" -> 45
      [] IsDigit(c) -> 48 + DigitVal(c)
      [] c = "A" -> 65
      [] c = "B" -> 66
      [] c = "a" -> 97
      [] c = "b" -> 98
      [] c = "x" -> 120
      [] OTHER -> 127

\* a < b in the order Array.prototype.sort() uses by default (code units, shorter prefix first)
RECURSIVE StrLess(_, _)
StrLess(a, b) ==
    IF b = <<>> THEN FALSE
    ELSE IF a = <<>> THEN TRUE
    ELSE IF CharCode(Head(a)) # CharCode(Head(b)) THEN CharCode(Head(a)) < CharCode(Head(b))
    ELSE StrLess(Tail(a), Tail(b))

\* insertion of one key into a sorted array
RECURSIVE InsertSorted(_, _)
InsertSorted(x, sorted) ==
    IF sorted = <<>> THEN <<x>>
    ELSE IF StrLess(x, Head(sorted)) THEN <<x>> \o sorted
    ELSE <<Head(sorted)>> \o InsertSorted(x, Tail(sorted))

\* keys.sort()
RECURSIVE SortKeys(_)
SortKeys(keys) ==
    IF keys = <<>> THEN <<>> ELSE InsertSorted(Head(keys), SortKeys(Tail(keys)))

\* keys.reverse()
Reverse(s) == [j \in 1..Len(s) |-> s[Len(s) + 1 - j]]

RECURSIVE SkipSpaces(_)
SkipSpaces(s) ==
    IF s # <<>> /\ Head(s) = " " THEN SkipSpaces(Tail(s)) ELSE s

RECURSIVE DigitPrefix(_)
DigitPrefix(s) ==
    IF s # <<>> /\ IsDigit(Head(s)) THEN <<Head(s)>> \o DigitPrefix(Tail(s)) ELSE <<>>

RECURSIVE DigitsToNat(_)
DigitsToNat(ds) ==
    IF ds = <<>> THEN 0
    ELSE 10 * DigitsToNat(SubSeq(ds, 1, Len(ds) - 1)) + DigitVal(ds[Len(ds)])

\* parseFloat(v): leading white space skipped, an optional sign, the longest run of
\* digits; NaN when there is no digit, and for undefined
ParseFloat(v) ==
    IF v.t # "str" THEN NaN
    ELSE LET s == SkipSpaces(v.e)
             neg == s # <<>> /\ Head(s) = "-"
             body == IF neg THEN Tail(s) ELSE s
             ds == DigitPrefix(body)
         IN  IF ds = <<>> THEN NaN
             ELSE Num(IF neg THEN 0 - DigitsToNat(ds) ELSE DigitsToNat(ds))

----------------------------------------------------------------------------
(* getLatestIndicatorValue *)

\* the date without the reverse: Object.keys(timeSeries).sort()[0]
LatestDateUnreversed(timeSeries) ==
    LET sorted == SortKeys(ObjectKeys(timeSeries))
    IN  IF sorted = <<>> THEN <<>> ELSE sorted[1]

\* Object.keys(timeSeries).sort().reverse()[0], <<>> standing for undefined
LatestDate(timeSeries) ==
    LET sorted == Reverse(SortKeys(ObjectKeys(timeSeries)))
    IN  IF sorted = <<>> THEN <<>> ELSE sorted[1]

getLatestIndicatorValue(data, indicatorKeyPrefix) ==
    IF data.t \in {"null", "undef"}
    THEN Threw
    ELSE
    LET analysisKey == FindPrefixed(ObjectKeys(data), indicatorKeyPrefix)
    IN  IF analysisKey = <<>> \/ Falsy(Lookup(data, analysisKey)) THEN Null
        ELSE
        LET timeSeries == Lookup(data, analysisKey)
            latestDate == LatestDate(timeSeries)
        IN  IF latestDate = <<>> \/ Falsy(Lookup(timeSeries, latestDate)) THEN Null
            ELSE
            LET record == Lookup(timeSeries, latestDate)
                fields == ObjectKeys(record)
                first == IF fields = <<>> THEN JUndef ELSE Lookup(record, fields[1])
            IN  ParseFloat(first)

----------------------------------------------------------------------------
(* Provider payloads of the indicator endpoints *)

NumFetches == 5

\* the prefixes the scan passes to getLatestIndicatorValue, in the order of the five fetches
IndicatorPrefix(k) ==
    IF k <= 3 THEN <<"Technical Analysis: ", "EMA">>
    ELSE IF k = 4 THEN <<"Technical Analysis: ", "RSI">>
    ELSE <<"Technical Analysis: ", "STOCH">>

\* the provider's formatting of a whole number
RECURSIVE ToStr(_)
ToStr(x) ==
    IF x < 0 THEN <<"-">> \o ToStr(0 - x)
    ELSE IF x < 10 THEN <<Digits[x + 1]>>
    ELSE ToStr(x \div 10) \o <<Digits[(x % 10) + 1]>>

\* an ISO date of January 2024, d in 0..9
DateStr(d) == <<"2", "0", "2", "4", "-", "0", "1", "-", "0", Digits[d + 1]>>

\* the record of one date: EMA and RSI carry one field, STOCH carries SlowK then SlowD
IndicatorRecord(k, x) ==
    IF k <= 3 THEN JObj(<<[k |-> <<"EMA">>, v |-> JStr(ToStr(x))]>>)
    ELSE IF k = 4 THEN JObj(<<[k |-> <<"RSI">>, v |-> JStr(ToStr(x))]>>)
    ELSE JObj(<<[k |-> <<"SlowK">>, v |-> JStr(ToStr(x))],
                [k |-> <<"SlowD">>, v |-> JStr(ToStr(x + 1))]>>)

\* the response a resolved fetch carries.  "series": two dates, the latest holding f.v
\* and the day before holding 1;
\* "empty": the payload key with an empty series; "norecord": the latest date with an
\* empty field set
ResponseOf(k, f) ==
    LET meta == [k |-> <<"Meta Data">>, v |-> JObj(<<>>)]
        series ==
            CASE f.st = "series" ->
                    <<[k |-> DateStr(2), v |-> IndicatorRecord(k, 1)],
                      [k |-> DateStr(3), v |-> IndicatorRecord(k, f.v)]>>
              [] f.st = "norecord" ->
                    <<[k |-> DateStr(3), v |-> JObj(<<>>)],
                      [k |-> DateStr(2), v |-> IndicatorRecord(k, 1)]>>
              [] OTHER -> <<>>
    IN  JObj(<<meta, [k |-> IndicatorPrefix(k), v |-> JObj(series)]>>)

----------------------------------------------------------------------------
(* GET /api/scan: request parsing *)

\* s.split(',')
RECURSIVE SplitComma(_)
SplitComma(s) ==
    IF \A j \in 1..Len(s) : s[j] # "," THEN <<s>>
    ELSE LET j == CHOOSE h \in 1..Len(s) : s[h] = "," /\ \A g \in 1..(h - 1) : s[g] # ","
         IN  <<SubSeq(s, 1, j - 1)>> \o SplitComma(SubSeq(s, j + 1, Len(s)))

RECURSIVE TrimEnd(_)
TrimEnd(s) ==
    IF s # <<>> /\ s[Len(s)] = " " THEN TrimEnd(SubSeq(s, 1, Len(s) - 1)) ELSE s

\* s.trim()
Trim(s) == TrimEnd(SkipSpaces(s))

UpperChar(c) == IF c = "a" THEN "A" ELSE IF c = "b" THEN "B" ELSE c

\* s.toUpperCase()
ToUpperCase(s) == [j \in 1..Len(s) |-> UpperChar(s[j])]

\* list.filter(s => s)
RECURSIVE FilterNonEmpty(_)
FilterNonEmpty(list) ==
    IF list = <<>> THEN <<>>
    ELSE IF Head(list) = <<>> THEN FilterNonEmpty(Tail(list))
    ELSE <<Head(list)>> \o FilterNonEmpty(Tail(list))

\* the parse without its final filter
ParseSymbolsUnfiltered(symbols) ==
    LET parts == SplitComma(symbols)
    IN  [j \in 1..Len(parts) |-> ToUpperCase(Trim(parts[j]))]

\* symbols.split(',').map(s => s.trim().toUpperCase()).filter(s => s)
ParseSymbols(symbols) ==
    LET parts == SplitComma(symbols)
    IN  FilterNonEmpty([j \in 1..Len(parts) |-> ToUpperCase(Trim(parts[j]))])

\* const { setupType = 'bullish' } = req.query
SetupTypeOf(q) == IF q.setupType.t = "undef" THEN "bullish" ELSE q.setupType.s

\* setupType.toLowerCase(), on the setup types the model sends
ToLowerCase(s) ==
    CASE s = "Bullish" -> "bullish"
      [] s = "BEARISH" -> "bearish"
      [] s = "Neutral" -> "neutral"
      [] OTHER -> s

----------------------------------------------------------------------------
(* GET /api/scan: the rule of each setup type.  A comparison with NaN is false. *)

IsNum(a) == a.t = "num"

Gt(a, b) == IsNum(a) /\ IsNum(b) /\ a.n > b.n

Lt(a, b) == IsNum(a) /\ IsNum(b) /\ a.n < b.n

Ge(a, b) == IsNum(a) /\ IsNum(b) /\ a.n >= b.n

Le(a, b) == IsNum(a) /\ IsNum(b) /\ a.n <= b.n

Abs(x) == IF x < 0 THEN 0 - x ELSE x

isBullishTrend(v) == Gt(v[1], v[2]) /\ Gt(v[2], v[3])

isBullishMomentum(v) == Ge(v[4], Num(55)) /\ Le(v[4], Num(80)) /\ Gt(v[5], Num(60))

isBearishTrend(v) == Lt(v[1], v[2]) /\ Lt(v[2], v[3])

isBearishMomentum(v) == Ge(v[4], Num(20)) /\ Le(v[4], Num(45)) /\ Lt(v[5], Num(40))

\* Math.abs(ema - avgEma) / avgEma < 0.01 with avgEma = sum / 3, in exact arithmetic:
\* for a positive sum it is 100 * |3 ema - sum| < sum; for a negative sum the quotient
\* is never positive; for a zero sum the quotient is Infinity or NaN
WithinOnePercent(ema, sum) ==
    IF sum > 0 THEN 100 * Abs(3 * ema - sum) < sum
    ELSE sum < 0

isNeutralTrend(v) ==
    /\ IsNum(v[1]) /\ IsNum(v[2]) /\ IsNum(v[3])
    /\ LET sum == v[1].n + v[2].n + v[3].n
       IN  /\ WithinOnePercent(v[1].n, sum)
           /\ WithinOnePercent(v[2].n, sum)
           /\ WithinOnePercent(v[3].n, sum)

\* the neutral momentum test with the upper RSI bound excluded
isNeutralMomentumStrict(v) ==
    Ge(v[4], Num(45)) /\ Lt(v[4], Num(65)) /\ Ge(v[5], Num(25)) /\ Le(v[5], Num(75))

isNeutralMomentum(v) ==
    Ge(v[4], Num(45)) /\ Le(v[4], Num(65)) /\ Ge(v[5], Num(25)) /\ Le(v[5], Num(75))

\* the switch on setupType.toLowerCase(): "match", "nomatch", or "invalid" for the default branch
SwitchSetupType(setupType, v) ==
    CASE ToLowerCase(setupType) = "bullish" ->
            IF isBullishTrend(v) /\ isBullishMomentum(v) THEN "match" ELSE "nomatch"
      [] ToLowerCase(setupType) = "bearish" ->
            IF isBearishTrend(v) /\ isBearishMomentum(v) THEN "match" ELSE "nomatch"
      [] ToLowerCase(setupType) = "neutral" ->
            IF isNeutralTrend(v) /\ isNeutralMomentum(v) THEN "match" ELSE "nomatch"
      [] OTHER -> "invalid"

----------------------------------------------------------------------------
(* GET /api/scan: one per-symbol task after its await *)

Fetches == 1..NumFetches

\* the five extracted latest values, from the five payloads the await delivered
Extracted(vals) ==
    [k \in Fetches |-> getLatestIndicatorValue(ResponseOf(k, vals[k]), IndicatorPrefix(k))]

\* ema10 === null || ema20 === null || ema50 === null || rsi === null || stochK === null
MissingIndicatorData(v) == \E k \in Fetches : v[k] = Null

ScanMatch(symbol, v) ==
    [symbol |-> symbol, ema10 |-> v[1], ema20 |-> v[2], ema50 |-> v[3],
     rsi |-> v[4], stochK |-> v[5]]

ScanError(symbol, message) == [symbol |-> symbol, message |-> message]

TypeErrorMessage == <<"Cannot convert undefined or null to object">>

\* the skip branch with the commented-out errors.push restored
SkipBranchReported(symbol) ==
    [results |-> <<>>,
     errors |-> <<[symbol |-> symbol, message |-> <<"Missing indicator data">>]>>]

\* what the skip branch appends to results and errors: nothing
SkipBranch(symbol) == [results |-> <<>>, errors |-> <<>>]

\* a catch block that reports the failure against the whole request
CatchBlockUnattributed(symbol, message) ==
    [results |-> <<>>, errors |-> <<[symbol |-> <<"N/A">>, message |-> message]>>]

\* what the catch block appends: one error carrying the thrown message
CatchBlock(symbol, message) ==
    [results |-> <<>>, errors |-> <<ScanError(symbol, message)>>]

\* what the default branch of the switch appends
DefaultBranch(setupType) ==
    [results |-> <<>>,
     errors |-> <<ScanError(<<"N/A">>, <<"Invalid setupType: ", setupType>>)>>]

\* the body of the try block after the await, and its catch: what the task appends
\* to results and to errors
TaskBody(symbol, setupType, in) ==
    IF in.st = "rejected" THEN CatchBlock(symbol, in.msg)
    ELSE
    LET v == Extracted(in.vals)
    IN  IF \E k \in Fetches : v[k] = Threw THEN CatchBlock(symbol, TypeErrorMessage)
        ELSE IF MissingIndicatorData(v) THEN SkipBranch(symbol)
        ELSE LET sw == SwitchSetupType(setupType, v)
             IN  IF sw = "invalid" THEN DefaultBranch(setupType)
                 ELSE IF sw = "match"
                      THEN [results |-> <<ScanMatch(symbol, v)>>, errors |-> <<>>]
                      ELSE [results |-> <<>>, errors |-> <<>>]

----------------------------------------------------------------------------
(* GET /api/scan: the handler as a state machine *)

\* at most this many of a scan's provider calls fail
MaxRejections == 2

\* at most this many of a scan's provider calls answer without a usable latest value
MaxDegraded == 1

QStr(s) == [t |-> "str", s |-> s]

QUndef == [t |-> "undef", s |-> ""]

\* the requests the model sends
ScanRequests ==
    { [symbols |-> JUndef, setupType |-> QUndef],
      [symbols |-> JStr(<<>>), setupType |-> QStr("bullish")],
      [symbols |-> JStr(<<" ", ",", " ">>), setupType |-> QStr("bullish")],
      [symbols |-> JStr(<<"a">>), setupType |-> QUndef],
      [symbols |-> JStr(<<",", "b", " ">>), setupType |-> QStr("BEARISH")],
      [symbols |-> JStr(<<"a", "b">>), setupType |-> QStr("Neutral")],
      [symbols |-> JStr(<<"b", ",", ",">>), setupType |-> QStr("sideways")],
      [symbols |-> JStr(<<" ", "a", " ", ",", "b">>), setupType |-> QStr("Bullish")],
      [symbols |-> JStr(<<"a", ",", "A">>), setupType |-> QStr("bullish")],
      [symbols |-> JStr(<<"a", ",", "b">>), setupType |-> QStr("sideways")] }

\* the message a failing provider call carries: the provider's error names the function
FetchMessage(k) ==
    <<"Alpha Vantage API Error: ", "Invalid API call for ", IndicatorPrefix(k)[2]>>

\* the latest value each indicator reports in a scan: EMA(10), EMA(20), EMA(50), RSI(14), SlowK
ScanValue(k) == <<12, 11, 10, 60, 70>>[k]

\* what a fetch of indicator k can resolve with in a scan
ScanPayloads(k) ==
    { [st |-> "series", v |-> ScanValue(k)],
      [st |-> "empty", v |-> 0] }

Tasks == 1..Len(symbolList)

\* the slot of Promise.all's values array that no fetch has filled
NoValue == [st |-> "none", v |-> 0]

\* Promise.all of five fetches: its state, its rejection reason, and the values array
\* it collects (delivered on fulfilment, discarded on rejection)
NoPromise == [st |-> "pending", msg |-> <<>>, vals |-> [k \in Fetches |-> NoValue]]

ExtIdle == [pc |-> "idle", data |-> JUndef, prefix |-> <<>>, out |-> Null]

ClientIdle ==
    [pc |-> "idle", apiKey |-> FALSE, symbol |-> <<>>, resp |-> JUndef,
     out |-> "none", err |-> <<>>, data |-> JUndef, log |-> <<>>]

Init ==
    /\ query \in ScanRequests
    /\ pc = "start"
    /\ symbolList = <<>>
    /\ fetch = <<>>
    /\ inner = <<>>
    /\ task = <<>>
    /\ results = <<>>
    /\ errors = <<>>
    /\ res = <<>>
    /\ ext = ExtIdle
    /\ client = ClientIdle

\* the handler up to its await: validation, then the fan-out, every task running up to
\* its own await with its five fetches launched
HandleScan ==
    /\ pc = "start"
    /\ IF Falsy(query.symbols)
       THEN /\ res' = Append(res, [status |-> 400,
                  body |-> [error |-> "Query parameter \"symbols\" (comma-separated) is required."]])
            /\ pc' = "sent"
            /\ UNCHANGED <<symbolList, fetch, inner, task>>
       ELSE LET list == ParseSymbols(query.symbols.e)
            IN  IF Len(list) = 0
                THEN /\ res' = Append(res, [status |-> 400,
                           body |-> [error |-> "No valid symbols provided."]])
                     /\ pc' = "sent"
                     /\ UNCHANGED <<symbolList, fetch, inner, task>>
                ELSE /\ symbolList' = list
                     /\ fetch' = [i \in 1..Len(list) |-> [k \in Fetches |-> "pending"]]
                     /\ inner' = [i \in 1..Len(list) |-> NoPromise]
                     /\ task' = [i \in 1..Len(list) |-> "await"]
                     /\ pc' = "awaitAll"
                     /\ res' = res
    /\ UNCHANGED <<query, results, errors, ext, client>>

NumRejected == Cardinality({p \in Tasks \X Fetches : fetch[p[1]][p[2]] = "rejected"})

NumDegraded ==
    Cardinality({p \in Tasks \X Fetches : inner[p[1]].vals[p[2]].st = "empty"})

\* Promise.all once fetch k resolved with a payload: the value is stored, and the promise
\* is fulfilled when it was the last; a promise already settled ignores it
AllAfterResolve(in, k, payload) ==
    IF in.st # "pending" THEN in
    ELSE LET vals == [in.vals EXCEPT ![k] = payload]
         IN  [st |-> IF \A h \in Fetches : vals[h] # NoValue THEN "fulfilled" ELSE "pending",
              msg |-> <<>>,
              vals |-> vals]

\* a promise that waits for every fetch to fulfil and takes no notice of a rejection
AllAfterRejectIgnored(in, m) == in

\* a promise that takes the reason of the latest rejection instead of the first
AllAfterRejectLast(in, m) ==
    IF in.st = "fulfilled" THEN in
    ELSE [st |-> "rejected", msg |-> m, vals |-> [k \in Fetches |-> NoValue]]

\* Promise.all once a fetch rejected with message m: rejected with the first rejection's
\* reason, the collected values never delivered; a promise already settled ignores it
AllAfterReject(in, m) ==
    IF in.st # "pending" THEN in
    ELSE [st |-> "rejected", msg |-> m, vals |-> [k \in Fetches |-> NoValue]]

\* a provider call of task i resolves
FetchResolve(i, k, payload) ==
    /\ pc # "start"
    /\ fetch[i][k] = "pending"
    /\ payload.st = "series" \/ NumDegraded < MaxDegraded
    /\ fetch' = [fetch EXCEPT ![i][k] = "resolved"]
    /\ inner' = [inner EXCEPT ![i] = AllAfterResolve(inner[i], k, payload)]
    /\ UNCHANGED <<query, pc, symbolList, task, results, errors, res, ext, client>>

\* a provider call of task i rejects
FetchReject(i, k, m) ==
    /\ pc # "start"
    /\ fetch[i][k] = "pending"
    /\ NumRejected < MaxRejections
    /\ fetch' = [fetch EXCEPT ![i][k] = "rejected"]
    /\ inner' = [inner EXCEPT ![i] = AllAfterReject(inner[i], m)]
    /\ UNCHANGED <<query, pc, symbolList, task, results, errors, res, ext, client>>

\* task i resumes after its await and runs to its end
TaskResume(i) ==
    /\ task[i] = "await"
    /\ inner[i].st # "pending"
    /\ LET out == TaskBody(symbolList[i], SetupTypeOf(query), inner[i])
       IN  /\ results' = results \o out.results
           /\ errors' = errors \o out.errors
    /\ task' = [task EXCEPT ![i] = "done"]
    /\ UNCHANGED <<query, pc, symbolList, fetch, inner, res, ext, client>>

\* a fan-in that settles with the first task to return, as Promise.race does
AnyTaskDone == \E i \in Tasks : task[i] = "done"

\* the outer Promise.all is fulfilled: every task has returned
AllTasksDone == \A i \in Tasks : task[i] = "done"

\* the handler resumes after await Promise.all(...) and sends the response
Respond ==
    /\ pc = "awaitAll"
    /\ AllTasksDone
    /\ res' = Append(res, [status |-> 200,
           body |-> [scanParameters |-> [symbols |-> symbolList, setupType |-> SetupTypeOf(query)],
                     matches |-> results,
                     errors |-> errors]])
    /\ pc' = "sent"
    /\ UNCHANGED <<query, symbolList, fetch, inner, task, results, errors, ext, client>>

Next ==
    \/ HandleScan
    \/ \E i \in Tasks, k \in Fetches : \E payload \in ScanPayloads(k) : FetchResolve(i, k, payload)
    \/ \E i \in Tasks, k \in Fetches : FetchReject(i, k, FetchMessage(k))
    \/ \E i \in Tasks : TaskResume(i)
    \/ Respond

Spec == Init /\ [][Next]_vars

----------------------------------------------------------------------------
(* The rule of the scan on values around every threshold: one task about to resume *)

EmaValues == {99, 100, 101}

RsiValues == {19, 20, 45, 46, 54, 55, 65, 66, 80, 81}

StochValues == {24, 25, 39, 40, 60, 61, 75, 76}

RuleSetups == {"bullish", "BEARISH", "Neutral"}

Series(x) == [st |-> "series", v |-> x]

\* what the RSI fetch resolves with: a number, or a latest record with no field
RsiPayloads == {Series(x) : x \in RsiValues} \cup {[st |-> "norecord", v |-> 0]}

InitRule ==
    /\ \E setup \in RuleSetups : query = [symbols |-> JStr(<<"a">>), setupType |-> QStr(setup)]
    /\ pc = "awaitAll"
    /\ symbolList = <<<<"A">>>>
    /\ fetch = <<[k \in Fetches |-> "resolved"]>>
    /\ \E e10 \in EmaValues, e20 \in EmaValues, e50 \in EmaValues :
       \E r \in RsiPayloads, k \in StochValues :
           inner = <<[st |-> "fulfilled", msg |-> <<>>,
                      vals |-> <<Series(e10), Series(e20), Series(e50), r, Series(k)>>]>>
    /\ task = <<"await">>
    /\ results = <<>>
    /\ errors = <<>>
    /\ res = <<>>
    /\ ext = ExtIdle
    /\ client = ClientIdle

NextRule ==
    \/ \E i \in Tasks : TaskResume(i)
    \/ Respond

SpecRule == InitRule /\ [][NextRule]_vars

----------------------------------------------------------------------------
(* getLatestIndicatorValue on bounded responses *)

\* a series holds at most this many dates
MaxDates == 2

ExtDates == {DateStr(1), DateStr(2), DateStr(3)}

\* the records a date can hold: null, no field, one field, SlowK then SlowD
ExtRecords ==
    { JNull,
      JObj(<<>>),
      JObj(<<[k |-> <<"EMA">>, v |-> JStr(<<"7">>)]>>),
      JObj(<<[k |-> <<"EMA">>, v |-> JStr(<<"1", "2">>)]>>),
      JObj(<<[k |-> <<"EMA">>, v |-> JStr(<<"x">>)]>>),
      JObj(<<[k |-> <<"SlowK">>, v |-> JStr(<<"3", "0">>)],
             [k |-> <<"SlowD">>, v |-> JStr(<<"4", "0">>)]>>),
      JObj(<<[k |-> <<"SlowK">>, v |-> JStr(<<"-", "5">>)],
             [k |-> <<"SlowD">>, v |-> JStr(<<"9">>)]>>) }

\* the series of at most n dates, in every insertion order, no date twice
RECURSIVE ExtSeries(_)
ExtSeries(n) ==
    IF n = 0 THEN {<<>>}
    ELSE LET shorter == ExtSeries(n - 1)
         IN  shorter \cup
             {Append(ser, [k |-> d, v |-> r]) :
                 ser \in {x \in shorter : Len(x) = n - 1},
                 d \in ExtDates, r \in ExtRecords}

DistinctDates(ser) == \A a, b \in 1..Len(ser) : ser[a].k = ser[b].k => a = b

MetaEntry == [k |-> <<"Meta Data">>, v |-> JObj(<<>>)]

\* the responses handed to getLatestIndicatorValue
ExtResponses ==
    {JNull, JObj(<<>>), JObj(<<MetaEntry>>),
     JObj(<<MetaEntry, [k |-> <<"Technical Analysis: ", "EMA">>, v |-> JNull]>>)}
    \cup {JObj(<<[k |-> <<"Technical Analysis: ", "EMA">>, v |-> JObj(ser)]>>) :
            ser \in {x \in ExtSeries(MaxDates) : DistinctDates(x)}}
    \cup {JObj(<<MetaEntry, [k |-> <<"Technical Analysis: ", "EMA", " (10)">>, v |-> JObj(ser)]>>) :
            ser \in {x \in ExtSeries(MaxDates) : DistinctDates(x)}}

ExtPrefixes == {<<"Technical Analysis: ", "EMA">>, <<"Technical Analysis: ", "RSI">>}

ScanIdle ==
    /\ query = [symbols |-> JUndef, setupType |-> QUndef]
    /\ pc = "idle"
    /\ symbolList = <<>>
    /\ fetch = <<>>
    /\ inner = <<>>
    /\ task = <<>>
    /\ results = <<>>
    /\ errors = <<>>
    /\ res = <<>>

InitLatest ==
    /\ ScanIdle
    /\ \E data \in ExtResponses, prefix \in ExtPrefixes :
           ext = [pc |-> "call", data |-> data, prefix |-> prefix, out |-> Null]
    /\ client = ClientIdle

\* one call of getLatestIndicatorValue returns, or throws
CallLatest ==
    /\ ext.pc = "call"
    /\ ext' = [ext EXCEPT !.pc = "returned",
                          !.out = getLatestIndicatorValue(ext.data, ext.prefix)]
    /\ UNCHANGED <<scanVars, client>>

NextLatest == CallLatest

SpecLatest == InitLatest /\ [][NextLatest]_vars

----------------------------------------------------------------------------
(* fetchDailyTimeSeries *)

ErrorMessageKey == <<"Error Message">>

NoteKey == <<"Note">>

DailyKey == <<"Time Series (Daily)">>

\* the entry of a field, none when the field is absent
Field(key, v) == IF v = JUndef THEN <<>> ELSE <<[k |-> key, v |-> v]>>

\* the bodies the provider answers a daily request with
DailyResponses ==
    {JObj(Field(ErrorMessageKey, e) \o Field(NoteKey, n) \o Field(DailyKey, ts)) :
        e \in {JUndef, JStr(<<>>), JStr(<<"Invalid API call.">>)},
        n \in {JUndef, JStr(<<"Thank you for using Alpha Vantage!">>),
               JStr(<<"Our standard API call frequency is 5 calls per minute.">>)},
        ts \in {JUndef, JObj(<<>>),
                JObj(<<[k |-> DateStr(3),
                        v |-> JObj(<<[k |-> <<"4. close">>, v |-> JStr(<<"1", "2">>)]>>)]>>)}}

DailySymbols == {<<>>, <<"IBM">>, <<"TSLA">>, <<"MSFT">>, <<"AAPL">>}

InitClient ==
    /\ ScanIdle
    /\ ext = ExtIdle
    /\ \E key \in BOOLEAN, sym \in DailySymbols :
           client = [ClientIdle EXCEPT !.pc = "call", !.apiKey = key, !.symbol = sym]

LogEntry(level, text) == [level |-> level, text |-> text]

\* the catch block of fetchDailyTimeSeries: the error is logged and thrown again
DailyCatch(c, message) ==
    [c EXCEPT !.pc = "settled", !.out = "rejected", !.err = message,
              !.log = Append(@, LogEntry("error", message))]

\* a Note handled as a failure
DailyTryNoteThrows(c, data) ==
    IF ~Falsy(Lookup(data, ErrorMessageKey))
    THEN DailyCatch(c, <<"Alpha Vantage API Error: ">> \o Lookup(data, ErrorMessageKey).e)
    ELSE IF ~Falsy(Lookup(data, NoteKey))
    THEN DailyCatch(c, <<"Alpha Vantage API Note: ">> \o Lookup(data, NoteKey).e)
    ELSE IF Falsy(Lookup(data, DailyKey))
    THEN DailyCatch(c, <<"No daily time series data found for symbol: ">> \o c.symbol)
    ELSE [c EXCEPT !.pc = "settled", !.out = "resolved", !.data = data]

\* the try block of fetchDailyTimeSeries once axios.get returned response.data = data
DailyTry(c, data) ==
    IF ~Falsy(Lookup(data, ErrorMessageKey))
    THEN DailyCatch(c, <<"Alpha Vantage API Error: ">> \o Lookup(data, ErrorMessageKey).e)
    ELSE LET noted ==
                 IF ~Falsy(Lookup(data, NoteKey))
                 THEN [c EXCEPT !.log = Append(@, LogEntry("warn",
                           <<"Alpha Vantage API Note: ">> \o Lookup(data, NoteKey).e))]
                 ELSE c
         IN  IF Falsy(Lookup(data, DailyKey))
             THEN DailyCatch(noted,
                      <<"No daily time series data found for symbol: ">> \o c.symbol)
             ELSE [noted EXCEPT !.pc = "settled", !.out = "resolved", !.data = data]

\* fetchDailyTimeSeries up to its await: the two eager checks, then axios.get is issued
CallDaily ==
    /\ client.pc = "call"
    /\ client' =
           IF ~client.apiKey
           THEN [client EXCEPT !.pc = "settled", !.out = "rejected",
                               !.err = <<"Alpha Vantage API key is missing.">>]
           ELSE IF client.symbol = <<>>
           THEN [client EXCEPT !.pc = "settled", !.out = "rejected",
                               !.err = <<"Stock symbol is required.">>]
           ELSE [client EXCEPT !.pc = "awaitHttp"]
    /\ UNCHANGED <<scanVars, ext>>

\* axios.get resolves with a response
HttpResponse(data) ==
    /\ client.pc = "awaitHttp"
    /\ client' = DailyTry([client EXCEPT !.resp = data], data)
    /\ UNCHANGED <<scanVars, ext>>

\* axios.get rejects: no response
HttpFailure ==
    /\ client.pc = "awaitHttp"
    /\ client' = DailyCatch(client, <<"Network Error">>)
    /\ UNCHANGED <<scanVars, ext>>

NextClient ==
    \/ CallDaily
    \/ \E data \in DailyResponses : HttpResponse(data)
    \/ HttpFailure

SpecClient == InitClient /\ [][NextClient]_vars

----------------------------------------------------------------------------
(* What the specification states, in its own terms *)

\* the setup type a request names, letter case ignored, "invalid" for any other word
StatedSetup(s) ==
    CASE s \in {"bullish", "Bullish", "BULLISH"} -> "bullish"
      [] s \in {"bearish", "Bearish", "BEARISH"} -> "bearish"
      [] s \in {"neutral", "Neutral", "NEUTRAL"} -> "neutral"
      [] OTHER -> "invalid"

AllNumbers(v) == \A k \in Fetches : v[k].t = "num"

\* the rule table: trend condition and momentum condition of each setup type
StatedRule(setup, v) ==
    /\ AllNumbers(v)
    /\ LET ema10 == v[1].n
           ema20 == v[2].n
           ema50 == v[3].n
           rsi == v[4].n
           stochK == v[5].n
           sum == ema10 + ema20 + ema50
       IN  CASE setup = "bullish" ->
                   /\ ema10 > ema20 /\ ema20 > ema50
                   /\ 55 <= rsi /\ rsi <= 80 /\ stochK > 60
             [] setup = "bearish" ->
                   /\ ema10 < ema20 /\ ema20 < ema50
                   /\ 20 <= rsi /\ rsi <= 45 /\ stochK < 40
             [] setup = "neutral" ->
                   \* |ema - sum/3| < (sum/3)/100 for each of the three
                   /\ \A e \in {ema10, ema20, ema50} :
                          300 * e - 100 * sum < sum /\ 100 * sum - 300 * e < sum
                   /\ 45 <= rsi /\ rsi <= 65 /\ 25 <= stochK /\ stochK <= 75
             [] OTHER -> FALSE

\* the number of positions of a sequence holding x
CountIn(seq, x) == Cardinality({j \in 1..Len(seq) : seq[j] = x})

Range(seq) == {seq[j] : j \in 1..Len(seq)}

DoneTasks == {i \in Tasks : task[i] = "done"}

\* the entries task i is to leave, judged from its own fetches alone
StatedMatches(i) ==
    IF inner[i].st # "fulfilled" THEN {}
    ELSE LET v == Extracted(inner[i].vals)
         IN  IF (\E k \in Fetches : v[k] = Null) THEN {}
             ELSE IF StatedRule(StatedSetup(SetupTypeOf(query)), v)
                  THEN {ScanMatch(symbolList[i], v)}
                  ELSE {}

StatedErrors(i) ==
    IF inner[i].st = "rejected" THEN {ScanError(symbolList[i], inner[i].msg)}
    ELSE LET v == Extracted(inner[i].vals)
         IN  IF (\E k \in Fetches : v[k] = Null) THEN {}
             ELSE IF StatedSetup(SetupTypeOf(query)) = "invalid"
                  THEN {ScanError(<<"N/A">>, <<"Invalid setupType: ", SetupTypeOf(query)>>)}
                  ELSE {}

Sent200 == pc = "sent" /\ Len(res) = 1 /\ res[1].status = 200

----------------------------------------------------------------------------
\* C1: per-symbol isolation.  At every moment of a scan, matches and errors hold exactly
\* the entries of the tasks that have finished, each task's entry decided by its own
\* five fetches alone: a task whose Promise.all rejected has left one errors entry
\* {symbol, message} with the rejection's message and no match, every other finished
\* task has left the outcome its own data gives, and a scan whose tasks have all
\* finished is answered 200 with these entries.
C1_PerSymbolIsolation ==
    /\ \A x \in Range(results) \cup UNION {StatedMatches(i) : i \in DoneTasks} :
           CountIn(results, x) = Cardinality({i \in DoneTasks : x \in StatedMatches(i)})
    /\ \A x \in Range(errors) \cup UNION {StatedErrors(i) : i \in DoneTasks} :
           CountIn(errors, x) = Cardinality({i \in DoneTasks : x \in StatedErrors(i)})
    /\ \A i \in DoneTasks :
           inner[i].st = "rejected" =>
               /\ ScanError(symbolList[i], inner[i].msg) \in Range(errors)
               /\ StatedMatches(i) = {}
    /\ (pc = "sent" /\ symbolList # <<>>) => Sent200

\* a scan of two symbols has ended: one task failed, the other matched
C1_Witness ==
    /\ Sent200
    /\ Len(symbolList) = 2
    /\ \E i, j \in Tasks :
           /\ inner[i].st = "rejected"
           /\ inner[j].st = "fulfilled"
           /\ res[1].body.errors = <<ScanError(symbolList[i], inner[i].msg)>>
           /\ Len(res[1].body.matches) = 1
           /\ res[1].body.matches[1].symbol = symbolList[j]

----------------------------------------------------------------------------
MatchedSymbols == {results[j].symbol : j \in 1..Len(results)}

ErrorSymbols == {errors[j].symbol : j \in 1..Len(errors)}

\* the symbols of the tasks that ended in the missing-indicator-data skip
SkippedSymbols ==
    {symbolList[i] : i \in {h \in DoneTasks :
        /\ inner[h].st = "fulfilled"
        /\ \E k \in Fetches : Extracted(inner[h].vals)[k] = Null}}

\* C2: after a completed scan each symbol name appears in at most one of matches,
\* errors and silently-skipped.
C2_OneOutcomePerSymbol ==
    Sent200 =>
        /\ MatchedSymbols \cap ErrorSymbols = {}
        /\ MatchedSymbols \cap SkippedSymbols = {}
        /\ ErrorSymbols \cap SkippedSymbols = {}

----------------------------------------------------------------------------
\* C4: a task whose five fetches resolved and whose extracted values include a null
\* ends without adding anything to matches or to errors, whatever the setup type.
C4_NullSkipped ==
    [][\A i \in Tasks :
          (/\ task[i] = "await"
           /\ task'[i] = "done"
           /\ inner[i].st = "fulfilled"
           /\ \E k \in Fetches : Extracted(inner[i].vals)[k] = Null)
          => (results' = results /\ errors' = errors)]_vars

\* a task has been skipped for a missing value under an unrecognised setup type
C4_Witness ==
    /\ Sent200
    /\ StatedSetup(SetupTypeOf(query)) = "invalid"
    /\ \E i \in Tasks :
           /\ inner[i].st = "fulfilled"
           /\ \E k \in Fetches : Extracted(inner[i].vals)[k] = Null
    /\ res[1].body.matches = <<>>
    /\ res[1].body.errors = <<>>

----------------------------------------------------------------------------
InvalidSetupErrors(errs) ==
    {j \in 1..Len(errs) : errs[j].message[1] = "Invalid setupType: "}

\* C7: the response to a scan with an unrecognised setupType carries exactly one
\* invalid-setupType error, however many symbols were requested and whatever
\* happened to their data.
C7_InvalidSetupReportedOnce ==
    (Sent200 /\ StatedSetup(SetupTypeOf(query)) = "invalid") =>
        Cardinality(InvalidSetupErrors(res[1].body.errors)) = 1

----------------------------------------------------------------------------
\* no symbol survives: the parameter is missing, or holds only commas and spaces
NoSymbolStated(q) ==
    \/ q.symbols.t = "undef"
    \/ \A j \in 1..Len(q.symbols.e) : q.symbols.e[j] \in {",", " "}

ProviderCallIssued == fetch # <<>>

\* C8: the scan answers 400, with no provider call issued, exactly when symbols is
\* missing or yields no non-empty symbol; any other answer is 200 with
\* scanParameters, matches and errors, and no answer has another status.
C8_StatusCodes ==
    /\ Len(res) <= 1
    /\ NoSymbolStated(query) => ~ProviderCallIssued
    /\ pc = "sent" =>
           /\ Len(res) = 1
           /\ res[1].status \in {200, 400}
           /\ res[1].status = 400 <=> NoSymbolStated(query)
           /\ res[1].status = 400 => ~ProviderCallIssued
           /\ res[1].status = 200 =>
                  /\ res[1].body.scanParameters.symbols = symbolList
                  /\ res[1].body.matches = results
                  /\ res[1].body.errors = errors

\* a scan in which provider calls failed has been answered 200
C8_Witness ==
    /\ Sent200
    /\ \E i \in Tasks : inner[i].st = "rejected"
    /\ res[1].body.errors # <<>>

----------------------------------------------------------------------------
\* C10: a response is sent at most once, and a 200 response is sent only when every
\* task has finished and carries every entry the tasks produced: after it, matches
\* and errors are what the response holds.
C10_FanIn ==
    /\ Len(res) <= 1
    /\ (res # <<>> /\ res[1].status = 200) =>
           /\ \A i \in Tasks : task[i] = "done"
           /\ res[1].body.matches = results
           /\ res[1].body.errors = errors
           /\ Len(results) + Len(errors)
                  = Cardinality({i \in Tasks : StatedMatches(i) \cup StatedErrors(i) # {}})

\* two tasks each produced an entry and both entries are in the response
C10_Witness ==
    /\ Sent200
    /\ Len(symbolList) = 2
    /\ Len(res[1].body.matches) + Len(res[1].body.errors) = 2

----------------------------------------------------------------------------
\* the value a payload states: the number the provider sent, NaN for a record with no field
StatedValue(payload) == IF payload.st = "series" THEN Num(payload.v) ELSE NaN

\* C3: with five non-null values, a symbol is placed in matches exactly when the trend
\* and the momentum condition of its setup type both hold, and the match record
\* carries the symbol and exactly the five values.
C3_RuleTable ==
    \A i \in DoneTasks :
        (inner[i].st = "fulfilled" /\ \A k \in Fetches : inner[i].vals[k].st # "empty") =>
            LET v == [k \in Fetches |-> StatedValue(inner[i].vals[k])]
                setup == StatedSetup(SetupTypeOf(query))
            IN  /\ setup # "invalid" =>
                       results = IF StatedRule(setup, v)
                                 THEN <<[symbol |-> symbolList[i], ema10 |-> v[1], ema20 |-> v[2],
                                         ema50 |-> v[3], rsi |-> v[4], stochK |-> v[5]]>>
                                 ELSE <<>>
                /\ setup # "invalid" => errors = <<>>

\* a neutral scan matched on EMAs that are not all equal, RSI and SlowK on their bounds
C3_Witness ==
    /\ Sent200
    /\ StatedSetup(SetupTypeOf(query)) = "neutral"
    /\ Len(res[1].body.matches) = 1
    /\ res[1].body.matches[1].ema10 # res[1].body.matches[1].ema50
    /\ res[1].body.matches[1].rsi = Num(45)
    /\ res[1].body.matches[1].stochK = Num(75)

----------------------------------------------------------------------------
\* the payload a response holds for a prefix: the value of its first key starting with it
HasPayloadKey(data, prefix) ==
    data.t = "obj" /\ \E j \in 1..Len(data.e) : StartsWith(data.e[j].k, prefix)

StatedPayload(data, prefix) ==
    data.e[CHOOSE j \in 1..Len(data.e) :
              /\ StartsWith(data.e[j].k, prefix)
              /\ \A h \in 1..(j - 1) : ~StartsWith(data.e[h].k, prefix)].v

\* the entry of a non-empty series under its lexicographically greatest date
GreatestEntry(ser) ==
    ser.e[CHOOSE j \in 1..Len(ser.e) :
             \A h \in 1..Len(ser.e) : h = j \/ StrLess(ser.e[h].k, ser.e[j].k)]

\* something is absent: no key with the prefix, an empty series, or a latest record
\* with an empty field set
SomethingAbsent(data, prefix) ==
    /\ data.t = "obj"
    /\ \/ ~HasPayloadKey(data, prefix)
       \/ /\ StatedPayload(data, prefix).t = "obj"
          /\ \/ StatedPayload(data, prefix).e = <<>>
             \/ GreatestEntry(StatedPayload(data, prefix)).v = JObj(<<>>)

\* C5: for a response in which something is absent, getLatestIndicatorValue returns
\* null: it does not throw and it returns no NaN.
C5_AbsentIsNull ==
    (ext.pc = "returned" /\ SomethingAbsent(ext.data, ext.prefix)) => ext.out = Null

----------------------------------------------------------------------------
\* the latest record of the response is a record with at least one field
HasLatestField(data, prefix) ==
    /\ HasPayloadKey(data, prefix)
    /\ StatedPayload(data, prefix).t = "obj"
    /\ StatedPayload(data, prefix).e # <<>>
    /\ GreatestEntry(StatedPayload(data, prefix)).v.t = "obj"
    /\ GreatestEntry(StatedPayload(data, prefix)).v.e # <<>>

\* C6: for a non-empty series of ISO dates in any insertion order,
\* getLatestIndicatorValue returns the numeric value of the first field of the record
\* under the greatest date (SlowK where SlowD follows it), never another date's.
C6_LatestDateFirstField ==
    (ext.pc = "returned" /\ HasLatestField(ext.data, ext.prefix)) =>
        ext.out = ParseFloat(GreatestEntry(StatedPayload(ext.data, ext.prefix)).v.e[1].v)

\* the greatest date was inserted first, holds SlowK 30 and SlowD 40, and 30 came back
\* although the date inserted last holds 12
C6_Witness ==
    /\ ext.pc = "returned"
    /\ HasLatestField(ext.data, ext.prefix)
    /\ Len(StatedPayload(ext.data, ext.prefix).e) = 2
    /\ StatedPayload(ext.data, ext.prefix).e[1].k = DateStr(3)
    /\ StatedPayload(ext.data, ext.prefix).e[1].v.e[1].k = <<"SlowK">>
    /\ StatedPayload(ext.data, ext.prefix).e[2].v = JObj(<<[k |-> <<"EMA">>, v |-> JStr(<<"1", "2">>)]>>)
    /\ ext.out = Num(30)

----------------------------------------------------------------------------
HasField(data, key) == \E j \in 1..Len(data.e) : data.e[j].k = key

\* the call got a response from the provider and has settled
Answered == client.pc = "settled" /\ client.resp.t = "obj"

NoteLogged ==
    \E j \in 1..Len(client.log) :
        /\ client.log[j].level = "warn"
        /\ client.log[j].text = <<"Alpha Vantage API Note: ">> \o Lookup(client.resp, NoteKey).e

\* C9 as stated: a response with a Note and no Error Message is a success, the note
\* logged and the response returned; a call fails with a provider error only when the
\* response has an Error Message field or lacks the time-series payload key.
C9_NoteIsSuccess ==
    Answered =>
        /\ (HasField(client.resp, NoteKey) /\ ~HasField(client.resp, ErrorMessageKey)) =>
               /\ client.out = "resolved"
               /\ client.data = client.resp
               /\ NoteLogged
        /\ client.out = "rejected" =>
               HasField(client.resp, ErrorMessageKey) \/ ~HasField(client.resp, DailyKey)

\* C9 amended: a response with a Note, no Error Message field and the time-series
\* payload key is a success that returns the response unchanged, the note logged as
\* a warning and nothing as an error; a call that got a response fails only when the
\* response has an Error Message field or lacks the time-series payload key.
C9_NoteWithPayloadIsSuccess ==
    Answered =>
        /\ (/\ HasField(client.resp, NoteKey)
            /\ ~HasField(client.resp, ErrorMessageKey)
            /\ HasField(client.resp, DailyKey)) =>
               /\ client.out = "resolved"
               /\ client.data = client.resp
               /\ NoteLogged
               /\ \A j \in 1..Len(client.log) : client.log[j].level # "error"
        /\ client.out = "rejected" =>
               HasField(client.resp, ErrorMessageKey) \/ ~HasField(client.resp, DailyKey)

\* a rate-limit note came with data: the call resolved and the note is in the log
C9_Witness ==
    /\ Answered
    /\ Lookup(client.resp, NoteKey) = JStr(<<"Our standard API call frequency is 5 calls per minute.">>)
    /\ ~HasField(client.resp, ErrorMessageKey)
    /\ client.out = "resolved"
    /\ client.data = client.resp
    /\ NoteLogged

----------------------------------------------------------------------------
(* One entry per task, whatever the number and the order of its rejections *)

RejectedOf(i) == {k \in Fetches : fetch[i][k] = "rejected"}

\* the tasks that return in this step
Returning == {i \in Tasks : task[i] = "await" /\ task'[i] = "done"}

IsPrefix(s, t) == Len(s) <= Len(t) /\ \A j \in 1..Len(s) : s[j] = t[j]

\* C11: each task contributes at most one entry in total.  The first of a task's
\* fetches to reject fixes the rejection's message, a later rejection of the same task
\* (before or after its catch ran) changes neither that message nor matches nor
\* errors; a returning task whose Promise.all rejected appends exactly one errors
\* entry {symbol, first rejection's message} and no match, any returning task appends
\* at most one entry, nothing else appends or removes entries; so matches plus errors
\* never exceed the finished tasks, hence never the symbols of the request list.
C11_OneEntryPerTask ==
    /\ [](/\ Len(results) + Len(errors) <= Cardinality(DoneTasks)
          /\ Cardinality(DoneTasks) <= Len(symbolList)
          /\ \A i \in DoneTasks :
                 RejectedOf(i) # {} =>
                     /\ CountIn(errors, ScanError(symbolList[i], inner[i].msg))
                            = Cardinality({j \in DoneTasks :
                                  /\ RejectedOf(j) # {}
                                  /\ ScanError(symbolList[j], inner[j].msg)
                                         = ScanError(symbolList[i], inner[i].msg)})
                     /\ \E k \in RejectedOf(i) : inner[i].msg = FetchMessage(k))
    /\ [][/\ IsPrefix(results, results') /\ IsPrefix(errors, errors')
          /\ Cardinality(Returning) <= 1
          /\ (Len(results') + Len(errors')) - (Len(results) + Len(errors))
                 <= Cardinality(Returning)
          /\ \A i \in Tasks :
                 /\ (RejectedOf(i) = {} /\ \E k \in Fetches : fetch'[i][k] = "rejected") =>
                        \E k \in Fetches :
                            /\ fetch'[i][k] = "rejected"
                            /\ inner'[i].st = "rejected"
                            /\ inner'[i].msg = FetchMessage(k)
                 /\ RejectedOf(i) # {} =>
                        /\ inner'[i] = inner[i]
                        /\ inner[i].st = "rejected"
                 /\ (i \in Returning /\ RejectedOf(i) # {}) =>
                        /\ errors' = Append(errors, ScanError(symbolList[i], inner[i].msg))
                        /\ results' = results]_vars

\* a task whose EMA(50) call rejected first has returned and left its one entry, with
\* that call's message; its EMA(10) call rejected too, and the scan is answered
C11_Witness ==
    /\ Sent200
    /\ Len(symbolList) = 1
    /\ RejectedOf(1) = {1, 3}
    /\ inner[1].msg = FetchMessage(3)
    /\ res[1].body.errors = <<ScanError(symbolList[1], FetchMessage(3))>>
    /\ res[1].body.matches = <<>>

----------------------------------------------------------------------------
(* Termination of a scan.  The handler's own steps are fair: the event loop runs a
   continuation whose promise has settled.  Nothing makes a provider call settle. *)

\* the requests under which termination is examined
LiveRequests ==
    { [symbols |-> JStr(<<" ", ",", " ">>), setupType |-> QStr("bullish")],
      [symbols |-> JStr(<<",", "b", " ">>), setupType |-> QStr("BEARISH")],
      [symbols |-> JStr(<<"a", ",", "b">>), setupType |-> QStr("sideways")] }

InitLive ==
    /\ query \in LiveRequests
    /\ pc = "start"
    /\ symbolList = <<>>
    /\ fetch = <<>>
    /\ inner = <<>>
    /\ task = <<>>
    /\ results = <<>>
    /\ errors = <<>>
    /\ res = <<>>
    /\ ext = ExtIdle
    /\ client = ClientIdle

\* a task can resume: it awaits and its Promise.all has settled.  This is what enables
\* TaskResume, whose other conjuncts only say what the step assigns
TaskReady == \E i \in Tasks : task[i] = "await" /\ inner[i].st # "pending"

\* weak fairness of the handler's three kinds of step; that of TaskResume is written
\* out with TaskReady as its enabling condition
SpecLive ==
    /\ InitLive
    /\ [][Next]_vars
    /\ WF_vars(HandleScan)
    /\ ([]<>(~TaskReady) \/ []<><<\E i \in Tasks : TaskResume(i)>>_vars)
    /\ WF_vars(Respond)

PendingOf(i) == {k \in Fetches : fetch[i][k] = "pending"}

NoCallPending == \A i \in Tasks : PendingOf(i) = {}

\* C12 as stated: the scan answers once every call has settled, and no answer is ever
\* sent while a provider call is unsettled (such a call may stay unsettled for ever).
C12_HungCallBlocksResponse ==
    /\ (<>[]NoCallPending) => ((symbolList # <<>>) ~> Sent200)
    /\ [](res # <<>> => NoCallPending)

\* C12: a scan with a non-empty symbol list is answered 200 once every provider call
\* issued for it has settled.  A task with an unsettled call and no rejected call has
\* not returned, and while there is such a task no answer is sent, whatever the other
\* tasks did; a task one of whose calls rejected returns through its catch although
\* another of its calls is unsettled, so an answer is sent only when every task has
\* all five calls resolved or one call rejected.
C12_Termination ==
    /\ (<>[]NoCallPending) => ((symbolList # <<>>) ~> Sent200)
    /\ [](\A i \in Tasks :
              /\ (PendingOf(i) # {} /\ RejectedOf(i) = {}) => (task[i] = "await" /\ res = <<>>)
              /\ res # <<>> => (PendingOf(i) = {} \/ RejectedOf(i) # {}))

\* a scan of two symbols is answered: every call of one task has resolved, the other
\* task returned on a rejection with four of its calls still unsettled
C12_Witness ==
    /\ Sent200
    /\ Len(symbolList) = 2
    /\ \E i, j \in Tasks :
           /\ PendingOf(i) = {} /\ RejectedOf(i) = {}
           /\ Cardinality(PendingOf(j)) = 4 /\ Cardinality(RejectedOf(j)) = 1

====
